---- MODULE Spec2Model ----
(***************************************************************************)
(* Model of streamlit_app.py: a Streamlit client of the Cortex Agents and  *)
(* Cortex Threads REST APIs.                                               *)
(*                                                                         *)
(* The script is re-executed top to bottom on every widget interaction.    *)
(* st.session_state (current_thread, parent_message_id, submitted_prompt)  *)
(* survives the runs.  A widget callback interrupts the running script,    *)
(* runs, and the script starts again from its first line.  An exception    *)
(* that is not caught ends the run and leaves st.session_state as it is.   *)
(***************************************************************************)
EXTENDS Integers, Sequences, FiniteSets, TLC

\* ---------------------------------------------------------------- bounds
MaxThreads == 2
MaxMsgs == 3
MaxStream == 3
MaxText == 3
MaxAnn == 3
MaxListed == 3

\* ---------------------------------------------------------------- values
\* Python None; thread ids and prompts are positive, so both are truthy.
None == 0
\* A key removed from st.session_state by pop().
Absent == -1

ThreadIds == 1..MaxThreads
\* Prompts, by their length in characters: a prompt longer than NameLimit.
Prompts == {40}
\* rename_thread docstring: the name "will be truncated to 20 characters".
NameLimit == 20

\* Texts carried by delta events, as sequences of characters.
Texts == {<<"X">>, <<"a", "b">>}
\* Texts of the answer: in the answer buffer they meet the markers.
AnswerTexts == {<<"a", "b">>}
DocIds == {"doc1"}
AnnIdx == {1}

VARIABLES
  current_thread,      \* st.session_state["current_thread"]
  parent_message_id,   \* st.session_state["parent_message_id"]
  submitted_prompt,    \* st.session_state["submitted_prompt"]
  pc,                  \* position of the script run
  new_thread,          \* value returned by threads.create_thread()
  srvThreads,          \* server: ids of the existing threads
  srvMsgs,             \* server: thread id -> message ids in creation order
  nextThread,          \* server: next thread id to hand out
  nextMsg,             \* server: next message id to hand out
  shown,               \* thread ids whose sidebar buttons are on the page
  chatInput,           \* the chat input widget is on the page
  planning_txt,        \* reasoning buffer of the running turn
  text_txt,            \* answer buffer of the running turn
  events,              \* source events the generator has consumed so far
  yielded,             \* items the generator has yielded so far
  lastOp,              \* the operation the last step performed, its outcome
  reqs,                \* thread/agent requests issued by the current run
  sent,                \* agent run requests sent for the pending prompt:
                       \* 0, 1, or 2 for more than one
  pre,                 \* session state when the turn started (line 537)
  before,              \* session state before the last step
  fpc,                 \* "app", or the position of a function run on its own
  raw_response,        \* parse_payload: the text of the stored item
  annotations,         \* parse_payload: the annotations of the stored item
  markdown,            \* parse_payload: the string given to st.markdown
  all_threads,         \* sidebar: the list the server returned
  now,                 \* sidebar: the clock when the list is shown
  sidebar,             \* sidebar: the thread buttons, from the top down
  secrets_file,        \* .streamlit/secrets.toml exists
  secrets              \* keys of st.secrets that have a value

session == <<current_thread, parent_message_id, submitted_prompt>>
server == <<srvThreads, srvMsgs, nextThread, nextMsg>>
page == <<shown, chatInput>>
turn == <<planning_txt, text_txt, events, yielded>>
config == <<secrets_file, secrets>>
app ==
  <<session, pc, new_thread, server, page, turn, lastOp, reqs, sent, pre, before,
    config>>
replay == <<raw_response, annotations, markdown>>
listing == <<all_threads, now, sidebar>>
pure == <<fpc, replay, listing>>
vars == <<app, pure>>

\* ------------------------------------------------------------- helpers
Last(s) == s[Len(s)]
Reverse(s) == [i \in 1..Len(s) |-> s[Len(s) + 1 - i]]

Op(name, ok, id) == [op |-> name, ok |-> ok, id |-> id]
Req(kind, ok, thread, parent) ==
  [kind |-> kind, ok |-> ok, thread_id |-> thread, parent_message_id |-> parent]

\* lines 19-26: keys missing from st.session_state get their defaults.
InitSessionState(ss) ==
  [current_thread |-> IF ss.current_thread = Absent THEN None ELSE ss.current_thread,
   parent_message_id |-> IF ss.parent_message_id = Absent THEN 0 ELSE ss.parent_message_id,
   submitted_prompt |-> IF ss.submitted_prompt = Absent THEN None ELSE ss.submitted_prompt]

SessionState ==
  [current_thread |-> current_thread,
   parent_message_id |-> parent_message_id,
   submitted_prompt |-> submitted_prompt]

\* Callbacks.set_thread
set_thread(ss, id) ==
  [ss EXCEPT !.current_thread = id, !.parent_message_id = 0]

\* Callbacks.reset_thread
reset_thread(ss) ==
  [current_thread |-> Absent, parent_message_id |-> Absent, submitted_prompt |-> Absent]

\* Callbacks.submit_prompt
submit_prompt(ss, prompt) ==
  [ss EXCEPT !.submitted_prompt = prompt]

\* delete_thread that forgets the causal pointer.
delete_thread_keeps_pointer(ss, id, ok) ==
  IF ss.current_thread = id THEN [ss EXCEPT !.current_thread = None] ELSE ss

\* delete_thread that resets the pointers whatever thread it deletes.
delete_thread_any(ss, id, ok) ==
  [ss EXCEPT !.current_thread = None, !.parent_message_id = 0]

\* CortexThreads.delete_thread, the part after the request: the response is
\* passed to _process_response, whose result is not used.
delete_thread(ss, id, ok) ==
  IF ss.current_thread = id
    THEN [ss EXCEPT !.current_thread = None, !.parent_message_id = 0]
    ELSE ss

\* The step was a call of a thread or agent operation: lastOp names it and
\* before keeps the session state the call started from.
Called(name, ok, id) ==
  /\ lastOp' = Op(name, ok, id)
  /\ before' = SessionState

\* The step was another statement of the script or a callback: lastOp names
\* it, and before is the session state it leaves.
Did(name, ok, id) ==
  /\ lastOp' = Op(name, ok, id)
  /\ before' = [current_thread |-> current_thread',
                parent_message_id |-> parent_message_id',
                submitted_prompt |-> submitted_prompt']

\* A callback has run: the script starts again from line 1 with the session
\* state ss; the interrupted run's locals and generator are gone.
Rerun(ss) ==
  /\ current_thread' = InitSessionState(ss).current_thread
  /\ parent_message_id' = InitSessionState(ss).parent_message_id
  /\ submitted_prompt' = InitSessionState(ss).submitted_prompt
  /\ pc' = "config"
  /\ new_thread' = None
  /\ planning_txt' = <<>>
  /\ text_txt' = <<>>
  /\ events' = <<>>
  /\ yielded' = <<>>
  /\ reqs' = <<>>
  /\ pre' = InitSessionState(ss)

\* The run ends with an uncaught exception: widgets the run did not reach
\* leave the page.
Abort(keepShown, keepInput) ==
  /\ pc' = "aborted"
  /\ shown' = IF keepShown THEN shown ELSE {}
  /\ chatInput' = (keepInput /\ chatInput)

\* The session of a browser tab that has just opened the page.
Started ==
  /\ current_thread = None
  /\ parent_message_id = 0
  /\ submitted_prompt = None
  /\ pc = "config"
  /\ new_thread = None
  /\ srvThreads = {}
  /\ srvMsgs = [t \in ThreadIds |-> <<>>]
  /\ nextThread = 1
  /\ nextMsg = 1
  /\ shown = {}
  /\ chatInput = FALSE
  /\ planning_txt = <<>>
  /\ text_txt = <<>>
  /\ events = <<>>
  /\ yielded = <<>>
  /\ lastOp = Op("start", TRUE, None)
  /\ reqs = <<>>
  /\ sent = 0
  /\ pre = InitSessionState(reset_thread(SessionState))
  /\ before = InitSessionState(reset_thread(SessionState))

\* AppConfig.__init__, keys_required.
Keys == {"pat", "account_url"}

\* The secrets file is there and has a value for every key.
Configured ==
  /\ secrets_file = TRUE
  /\ secrets = Keys

\* No stored item is being replayed.
NoReplay ==
  /\ raw_response = <<>>
  /\ annotations = <<>>
  /\ markdown = <<>>

\* No list of threads is being shown on its own.
NoListing ==
  /\ all_threads = <<>>
  /\ now = 0
  /\ sidebar = <<>>

Init ==
  /\ Started
  /\ secrets_file \in BOOLEAN
  /\ secrets \in SUBSET Keys
  /\ fpc = "app"
  /\ NoReplay
  /\ NoListing

\* ------------------------------------------------- widget callbacks
\* A widget event stops the running script at the next st.* call it makes;
\* a run that has ended is restarted at once.  pc names the request the run
\* is about to make: st.* calls come before the list request (443-449),
\* the fetch (472-512), the chat input (529), the create request (531), the
\* run request (552-557) and every read of the stream (563-572), and none
\* between the create request, the store of its result and the rename
\* request (539-543), nor between StopIteration and st.rerun() (574-575).
Interruptible ==
  pc \in {"list", "fetch", "input", "create", "call", "stream", "idle", "aborted"}

\* Sidebar button of thread id: on_click=callbacks.set_thread.
UserSetThread(id) ==
  /\ UNCHANGED <<config, pure>>
  /\ Interruptible
  /\ id \in shown
  /\ Rerun(set_thread(SessionState, id))
  /\ Did("set_thread", TRUE, id)
  /\ UNCHANGED <<server, page, sent>>

\* "New Thread" button: on_click=callbacks.reset_thread.
UserResetThread ==
  /\ UNCHANGED <<config, pure>>
  /\ Interruptible
  /\ Rerun(reset_thread(SessionState))
  /\ Did("reset_thread", TRUE, None)
  /\ UNCHANGED <<server, page, sent>>

\* Chat input: on_submit=callbacks.submit_prompt.
UserSubmitPrompt(p) ==
  /\ UNCHANGED <<config, pure>>
  /\ Interruptible
  /\ chatInput
  /\ Rerun(submit_prompt(SessionState, p))
  /\ sent' = 0
  /\ Did("submit_prompt", TRUE, p)
  /\ UNCHANGED <<server, page>>

\* Close button of thread id: on_click=threads.delete_thread.  The DELETE
\* request succeeds only for a thread the server has.
UserDeleteThread(id, ok) ==
  /\ UNCHANGED <<config, pure>>
  /\ Interruptible
  /\ id \in shown
  /\ ok => id \in srvThreads
  /\ srvThreads' = IF ok THEN srvThreads \ {id} ELSE srvThreads
  /\ srvMsgs' = IF ok THEN [srvMsgs EXCEPT ![id] = <<>>] ELSE srvMsgs
  /\ Rerun(delete_thread(SessionState, id, ok))
  /\ Called("delete_thread", ok, id)
  /\ UNCHANGED <<nextThread, nextMsg, page, sent>>

\* ------------------------------------------------------ the script run
\* lines 451-514: threads.list_threads() and the sidebar.  A failed request
\* makes _process_response return None, and None.json() raises.
\* The threads are those of the account of the PAT and of the application
\* name (lines 187-191), which every session of the app shares: another
\* session's delete_thread (lines 232-234) removes a thread at the server
\* and leaves this session's state as it is.  This session sees it at its
\* next list request; a request that meets the deletion later in the run
\* fails, which every request of the model can do.
DeletedElsewhere(id) ==
  /\ UNCHANGED <<config, pure>>
  /\ pc = "list"
  /\ id \in srvThreads
  /\ srvThreads' = srvThreads \ {id}
  /\ srvMsgs' = [srvMsgs EXCEPT ![id] = <<>>]
  /\ Called("deleted_elsewhere", TRUE, id)
  /\ UNCHANGED <<session, pc, new_thread, nextThread, nextMsg, page, turn, reqs,
                 sent, pre>>

\* AppConfig.__init__ with st.stop() taken out: the run goes on.
AppConfigOutcome_goes_on == "ok"

\* lines 88-128: the keys are looked at only when the file exists; a key
\* without a value stops the run (st.stop), and so does the read of
\* self.ACCOUNT_URL at line 118 when no key was looked at (AttributeError).
AppConfigOutcome ==
  LET failed_checks == IF secrets_file THEN Keys \ secrets ELSE {}
  IN IF failed_checks # {} THEN "stopped"
     ELSE IF secrets_file THEN "ok"
     ELSE "raised"

\* lines 433-438: main builds the configuration first, in every run.
AppConfig ==
  /\ UNCHANGED <<config, pure>>
  /\ pc = "config"
  /\ Called("AppConfig", AppConfigOutcome = "ok", None)
  /\ pc' = IF AppConfigOutcome = "ok" THEN "list" ELSE "halted"
  /\ UNCHANGED <<session, new_thread, server, page, turn, reqs, sent, pre>>

ListThreads(ok) ==
  /\ UNCHANGED <<config, pure>>
  /\ pc = "list"
  /\ Called("list_threads", ok, None)
  /\ IF ok
       THEN /\ shown' = srvThreads
            /\ current_thread' = IF srvThreads = {} THEN None ELSE current_thread
            /\ pc' = "fetch"
            /\ UNCHANGED chatInput
       ELSE /\ Abort(FALSE, FALSE)
            /\ UNCHANGED current_thread
  /\ UNCHANGED <<parent_message_id, submitted_prompt, new_thread, server, turn,
                 reqs, sent, pre>>

\* messages.get("messages")[:-1][0].get("message_id")
DropLast(s) == SubSeq(s, 1, Len(s) - 1)
get_last_message_id(messages) ==
  IF DropLast(messages) = <<>>
    THEN [raised |-> TRUE, message_id |-> 0]
    ELSE [raised |-> FALSE, message_id |-> DropLast(messages)[1]]

\* The list GET cortex/threads/{id} answers with: the thread's messages, in
\* creation order or newest first (the client sorts them itself, line 523).
Fetched(id, newestFirst) ==
  IF newestFirst THEN Reverse(srvMsgs[id]) ELSE srvMsgs[id]

\* lines 516-529: fetch the active thread's messages, derive the pointer.
FetchMessages(ok, newestFirst) ==
  /\ UNCHANGED <<config, pure>>
  /\ pc = "fetch"
  /\ IF current_thread = None
       THEN /\ ok /\ ~newestFirst
            /\ Called("no_thread", TRUE, None)
            /\ pc' = "input"
            /\ UNCHANGED <<parent_message_id, page>>
       ELSE /\ ok => current_thread \in srvThreads
            /\ ~ok => ~newestFirst
            /\ Called("get_thread_messages", ok, current_thread)
            /\ IF ~ok
                 THEN Abort(TRUE, FALSE) /\ UNCHANGED parent_message_id
                 ELSE LET messages == Fetched(current_thread, newestFirst)
                          r == get_last_message_id(messages)
                      IN IF Len(messages) = 0
                           THEN /\ pc' = "input"
                                /\ UNCHANGED <<parent_message_id, page>>
                           ELSE IF r.raised
                             THEN Abort(TRUE, FALSE) /\ UNCHANGED parent_message_id
                             ELSE /\ parent_message_id' = r.message_id
                                  /\ pc' = "input"
                                  /\ UNCHANGED page
  /\ UNCHANGED <<current_thread, submitted_prompt, new_thread, server, turn,
                 reqs, sent, pre>>

\* A turn that creates a thread every time.
NeedsThreadAlways(ss) == TRUE

\* line 538: the turn needs a new thread.
NeedsThread(ss) == ss.current_thread = None

\* lines 531-538: the chat input is drawn; a pending prompt starts a turn.
ChatInput ==
  /\ UNCHANGED <<config, pure>>
  /\ pc = "input"
  /\ chatInput' = TRUE
  /\ IF submitted_prompt # None
       THEN /\ pre' = SessionState
            /\ pc' = IF NeedsThread(SessionState) THEN "create" ELSE "call"
       ELSE /\ pc' = "idle"
            /\ UNCHANGED pre
  /\ UNCHANGED <<session, new_thread, server, shown, turn, reqs, sent>>
  /\ Did("chat_input", TRUE, None)

\* line 539, right-hand side: threads.create_thread().  After a failed
\* request _process_response returns None and None.json() raises.
CreateThread(ok) ==
  /\ UNCHANGED <<config, pure>>
  /\ pc = "create"
  /\ ok => nextThread <= MaxThreads
  /\ Called("create_thread", ok, IF ok THEN nextThread ELSE None)
  /\ reqs' = Append(reqs, Req("create", ok, IF ok THEN nextThread ELSE None, 0))
  /\ IF ok
       THEN /\ srvThreads' = srvThreads \cup {nextThread}
            /\ nextThread' = nextThread + 1
            /\ new_thread' = nextThread
            /\ pc' = "assign"
            /\ UNCHANGED page
       ELSE /\ Abort(TRUE, TRUE)
            /\ UNCHANGED <<srvThreads, nextThread, new_thread>>
  /\ UNCHANGED <<session, srvMsgs, nextMsg, turn, sent, pre>>

\* line 539, the store into st.session_state["current_thread"].
AssignThread ==
  /\ UNCHANGED <<config, pure>>
  /\ pc = "assign"
  /\ current_thread' = new_thread
  /\ pc' = "rename"
  /\ UNCHANGED <<parent_message_id, submitted_prompt, new_thread, server, page,
                 turn, reqs, sent, pre>>
  /\ Did("assign_thread", TRUE, new_thread)

\* lines 540-543: threads.rename_thread.  _process_response shows a failure
\* and returns None, which rename_thread does not look at.
RenameThread(ok) ==
  /\ UNCHANGED <<config, pure>>
  /\ pc = "rename"
  /\ ok => current_thread \in srvThreads
  /\ Called("rename_thread", ok, current_thread)
  /\ reqs' = Append(reqs, Req("rename", ok, current_thread, 0)
                              @@ [name |-> submitted_prompt])
  /\ pc' = "call"
  /\ UNCHANGED <<session, new_thread, server, page, turn, sent, pre>>

\* ------------------------------------------------------ the agent stream
\* Events of the server-push stream: the event name, whether the data is
\* valid JSON, and the fields the client reads.
Event(name, valid, text, idx, doc) ==
  [event |-> name, valid |-> valid, text |-> text,
   annotation_index |-> idx, doc_id |-> doc]

ThinkingDelta(t) == Event("response.thinking.delta", TRUE, t, 0, "")
TextDelta(t) == Event("response.text.delta", TRUE, t, 0, "")
TextAnnotation(i, d) == Event("response.text.annotation", TRUE, <<>>, i, d)
\* Event names the client does not know.
OtherEvent == Event("response.status", TRUE, <<>>, 0, "")
\* A known event name with data that is not JSON.
BadEvent(name) == Event(name, FALSE, <<>>, 0, "")

Recognized ==
  {"response.thinking.delta", "response.text.delta", "response.text.annotation"}

WellFormedEvents ==
  {ThinkingDelta(t) : t \in Texts} \cup {TextDelta(t) : t \in AnswerTexts}
    \cup {TextAnnotation(i, d) : i \in AnnIdx, d \in DocIds} \cup {OtherEvent}
StreamEvents == WellFormedEvents \cup {BadEvent("response.text.delta")}

\* str() of a small integer.
Digits == <<"1", "2", "3", "4", "5", "6", "7", "8", "9">>
Str(n) == IF n = 0 THEN "0" ELSE Digits[n]

\* line 324: the citation marker, two blanks before it and one after.
Marker(annotation_index, doc_id) ==
  <<" ", " ", ":small[:blue-background[[**", Str(annotation_index), "**](",
    doc_id, ")]]", " ">>

Item(is_text, text) == [is_text |-> is_text, text |-> text]

\* A generator without the annotation case.
YieldNoAnnotation(e) ==
  CASE e.event = "response.thinking.delta" -> <<Item(FALSE, e.text)>>
    [] e.event = "response.text.delta" -> <<Item(TRUE, e.text)>>
    [] OTHER -> <<>>

\* lines 313-325: what the generator yields for one source event, as a
\* sequence of no or one item.
Yield(e) ==
  CASE e.event = "response.thinking.delta" -> <<Item(FALSE, e.text)>>
    [] e.event = "response.text.delta" -> <<Item(TRUE, e.text)>>
    [] e.event = "response.text.annotation" ->
         <<Item(TRUE, Marker(e.annotation_index, e.doc_id))>>
    [] OTHER -> <<>>

\* lines 315-320: json.loads(event.data) raises on data that is not JSON.
Raises(e) == e.event \in Recognized /\ ~e.valid

\* An assembler that puts every item into the answer buffer.
AnswerAfterAny(buf, item) == buf \o item.text

\* lines 562-572: the buffers after an item.
AnswerAfter(buf, item) == IF item.is_text THEN buf \o item.text ELSE buf
ReasoningAfter(buf, item) == IF item.is_text THEN buf ELSE buf \o item.text

\* lines 545-561, up to the first next(call_code): the generator starts and
\* posts the run request.  After a failed request _process_response returns
\* None, and iterating SSEClient(None) raises out of next().
CallAgent(ok) ==
  /\ UNCHANGED <<config, pure>>
  /\ pc = "call"
  /\ ok => (current_thread \in srvThreads /\ nextMsg + 1 <= MaxMsgs)
  /\ Called("call_cortex_agent", ok, current_thread)
  /\ reqs' = Append(reqs, Req("run", ok, current_thread, parent_message_id))
  /\ sent' = IF sent = 0 THEN 1 ELSE 2
  /\ IF ok
       THEN /\ srvMsgs' = [srvMsgs EXCEPT ![current_thread] = Append(@, nextMsg)]
            /\ nextMsg' = nextMsg + 1
            /\ pc' = "stream"
            /\ UNCHANGED page
       ELSE /\ Abort(TRUE, TRUE)
            /\ UNCHANGED <<srvMsgs, nextMsg>>
  /\ UNCHANGED <<session, new_thread, srvThreads, nextThread, turn, pre>>

\* lines 312-325 and 561-572: the generator takes the next source event; it
\* yields an item, which main adds to a buffer, or goes on to the next event.
NextEvent(e) ==
  /\ UNCHANGED <<config, pure>>
  /\ pc = "stream"
  /\ Len(events) < MaxStream
  /\ events' = Append(events, e)
  /\ IF Raises(e)
       THEN /\ Abort(TRUE, TRUE)
            /\ UNCHANGED <<planning_txt, text_txt, yielded>>
       ELSE /\ yielded' = yielded \o Yield(e)
            /\ text_txt' = IF Yield(e) = <<>> THEN text_txt
                           ELSE AnswerAfter(text_txt, Yield(e)[1])
            /\ planning_txt' = IF Yield(e) = <<>> THEN planning_txt
                               ELSE ReasoningAfter(planning_txt, Yield(e)[1])
            /\ UNCHANGED <<pc, page>>
  /\ UNCHANGED <<session, new_thread, server, reqs, sent, pre>>
  /\ Did("next", ~Raises(e), current_thread)

\* line 326 and 573: the connection closes, the generator returns and next()
\* raises StopIteration.  The thread now has the assistant's message.
StreamEnd ==
  /\ UNCHANGED <<config, pure>>
  /\ pc = "stream"
  /\ pc' = "exhausted"
  /\ srvMsgs' = [srvMsgs EXCEPT ![current_thread] = Append(@, nextMsg)]
  /\ nextMsg' = nextMsg + 1
  /\ UNCHANGED <<session, new_thread, srvThreads, nextThread, page, turn, reqs,
                 sent, pre>>
  /\ Did("stop_iteration", TRUE, current_thread)

\* lines 574-575: the pending prompt is cleared and the script is rerun.
Complete ==
  /\ UNCHANGED <<config, pure>>
  /\ pc = "exhausted"
  /\ Rerun([SessionState EXCEPT !.submitted_prompt = None])
  /\ Did("rerun", TRUE, current_thread)
  /\ UNCHANGED <<server, page, sent>>

Next ==
  \/ AppConfig
  \/ \E ok \in BOOLEAN : ListThreads(ok)
  \/ \E ok \in BOOLEAN, newestFirst \in BOOLEAN : FetchMessages(ok, newestFirst)
  \/ ChatInput
  \/ \E ok \in BOOLEAN : CreateThread(ok)
  \/ AssignThread
  \/ \E ok \in BOOLEAN : RenameThread(ok)
  \/ \E ok \in BOOLEAN : CallAgent(ok)
  \/ \E e \in StreamEvents : NextEvent(e)
  \/ StreamEnd
  \/ Complete
  \/ \E id \in ThreadIds : UserSetThread(id)
  \/ UserResetThread
  \/ \E p \in Prompts : UserSubmitPrompt(p)
  \/ \E id \in ThreadIds, ok \in BOOLEAN : UserDeleteThread(id, ok)
  \/ \E id \in ThreadIds : DeletedElsewhere(id)

Spec == Init /\ [][Next]_vars

\* ------------------------------------------- replay of a stored message
\* Characters of a stored text, and the doc_id values of its annotations.
Letters == <<"a", "b", "c", "d", "e", "f">>
ReplayDocs == {"doc1", "doc2"}

\* Line 402 lets only a text that is not empty reach the replay.  The
\* characters of a text are all different, so that one that is lost, doubled
\* or moved shows.
StoredTexts == {SubSeq(Letters, 1, n) : n \in 1..MaxText}
\* An annotation as stored: the document and the offset in the text ("index").
StoredAnnotation == [doc_id : ReplayDocs, index : 0..(MaxText + 1)]
StoredAnnotations == UNION {[1..n -> StoredAnnotation] : n \in 0..MaxAnn}

\* CortexAgent._format_annotations: number is the place in the list, from 1.
format_annotations(anns) ==
  [i \in 1..Len(anns) |->
    [number |-> i, url |-> anns[i].doc_id, position |-> anns[i].index]]

\* sorted(annotations_dict, key=lambda item: item["number"], reverse=True)
SortedByNumberDesc(dicts) ==
  [i \in 1..Len(dicts) |->
    CHOOSE x \in {dicts[k] : k \in 1..Len(dicts)} :
      Cardinality({k \in 1..Len(dicts) : dicts[k].number > x.number}) = i - 1]

\* lines 414-417: the marker, f" {number} " inside the link.
ReplayOpen == ":grey-background[:small[["
ReplayMarker(number, url) ==
  <<" ", ReplayOpen, " ", Str(number), " ", "](", url, ")]]", " ">>

\* list.insert that writes over the element at i.
InsertOver(list, i, x) ==
  IF i >= Len(list) THEN Append(list, x)
  ELSE SubSeq(list, 1, i) \o <<x>> \o SubSeq(list, i + 2, Len(list))

\* list.insert(i, x) for i >= 0: x goes before the element at i, at the end
\* when i is not less than the length.
Insert(list, i, x) ==
  IF i >= Len(list) THEN Append(list, x)
  ELSE SubSeq(list, 1, i) \o <<x>> \o SubSeq(list, i + 1, Len(list))

\* lines 413-418: the insertions, in the order of the sorted list.
RECURSIVE InsertAll(_, _)
InsertAll(list, sorted) ==
  IF sorted = <<>> THEN list
  ELSE InsertAll(
         Insert(list, sorted[1].position,
                ReplayMarker(sorted[1].number, sorted[1].url)),
         Tail(sorted))

\* "".join(response_list)
RECURSIVE Join(_)
Join(list) == IF list = <<>> THEN <<>> ELSE list[1] \o Join(Tail(list))

\* lines 402-422: the string parse_payload gives to st.markdown for a text
\* item; list(raw_response) has one element per character.
Rendered(text, anns) ==
  IF anns # <<>>
    THEN Join(InsertAll([i \in 1..Len(text) |-> <<text[i]>>],
                        SortedByNumberDesc(format_annotations(anns))))
    ELSE text

\* A stored text item and its annotations, before parse_payload shows it.
InitReplay ==
  /\ Started
  /\ Configured
  /\ fpc = "replay"
  /\ raw_response \in StoredTexts
  /\ annotations \in StoredAnnotations
  /\ markdown = <<>>
  /\ NoListing

\* CortexAgent.parse_payload on the item.
ParsePayload ==
  /\ fpc = "replay"
  /\ fpc' = "replayed"
  /\ markdown' = Rendered(raw_response, annotations)
  /\ UNCHANGED <<app, raw_response, annotations, listing>>

SpecReplay == InitReplay /\ [][ParsePayload]_vars

\* ------------------------------------------------- the sidebar's groups
\* Time is counted in half days: updated_on and the clock are instants, and
\* the date of an instant is its day number (lines 453-455, fromtimestamp and
\* the date that naturaldate takes of it).
UnitsPerDay == 2
fromtimestamp(t) == t \div UnitsPerDay

\* The clock: the first and the second half of one day.
Clock == {26, 27}
\* How long before the clock a thread was updated: later than the clock, at
\* the clock, up to two days before, and ten days before.
Ages == {-2, 0, 1, 2, 3, 4, 20}
ListedIds == 1..MaxListed
\* The lists the server can return: distinct thread ids, any updated_on.
Listings(clock) ==
  UNION {
    {l \in [1..n -> [thread_id : ListedIds, updated_on : {clock - a : a \in Ages}]] :
       \A i, j \in 1..n : l[i].thread_id = l[j].thread_id => i = j}
    : n \in 1..MaxListed}

\* humanize.naturaldate that takes a day after the date as the day before.
naturaldate_abs(date, today) ==
  CASE date - today = 0 -> "today"
    [] date - today = 1 -> "yesterday"
    [] date - today = -1 -> "yesterday"
    [] OTHER -> "date"

\* humanize.naturaldate of a date: the words for the three days around the
\* current date, the formatted date for every other day.
naturaldate(date, today) ==
  CASE date - today = 0 -> "today"
    [] date - today = 1 -> "tomorrow"
    [] date - today = -1 -> "yesterday"
    [] OTHER -> "date"

\* lines 452-457: thread_id -> the natural date of its updated_on.
threads_times(list, clock) ==
  [id \in {list[i].thread_id : i \in 1..Len(list)} |->
    LET th == CHOOSE th \in {list[i] : i \in 1..Len(list)} : th.thread_id = id
    IN naturaldate(fromtimestamp(th.updated_on), fromtimestamp(clock))]

\* lines 458-471: the ids of each group.
bucketed_times(list, clock) ==
  LET cat == threads_times(list, clock)
      ids == {list[i].thread_id : i \in 1..Len(list)}
  IN [today |-> {id \in ids : cat[id] = "today"},
      yesterday |-> {id \in ids : cat[id] = "yesterday"},
      older |-> {id \in ids : cat[id] \notin {"today", "yesterday"}}]

\* lines 473-484: the containers, in the order the script creates them.
Containers == <<"today", "yesterday", "older">>

\* lines 486-490: the first key of bucketed_times that holds the id.
GroupOf(id, buckets) ==
  Containers[CHOOSE g \in 1..Len(Containers) :
    /\ id \in buckets[Containers[g]]
    /\ \A h \in 1..(g - 1) : id \notin buckets[Containers[h]]]

\* lines 485-511: every thread of the list, in the list's order, puts its
\* buttons at the end of its group's container.
RECURSIVE InContainer(_, _, _)
InContainer(list, buckets, group) ==
  IF list = <<>> THEN <<>>
  ELSE IF GroupOf(list[1].thread_id, buckets) = group
    THEN <<[group |-> group, thread_id |-> list[1].thread_id]>>
           \o InContainer(Tail(list), buckets, group)
    ELSE InContainer(Tail(list), buckets, group)

RenderedSidebar(list, clock) ==
  LET buckets == bucketed_times(list, clock)
  IN InContainer(list, buckets, Containers[1])
       \o InContainer(list, buckets, Containers[2])
       \o InContainer(list, buckets, Containers[3])

\* A list of threads has come back from the server (line 451, not empty).
InitSidebar ==
  /\ Started
  /\ Configured
  /\ fpc = "sidebar"
  /\ NoReplay
  /\ now \in Clock
  /\ all_threads \in Listings(now)
  /\ sidebar = <<>>

\* lines 452-511: the sidebar is drawn.
ShowSidebar ==
  /\ fpc = "sidebar"
  /\ fpc' = "shown"
  /\ sidebar' = RenderedSidebar(all_threads, now)
  /\ UNCHANGED <<app, replay, all_threads, now>>

SpecSidebar == InitSidebar /\ [][ShowSidebar]_vars

\* ================================================================ claims
SessionIs(ss) ==
  /\ current_thread = ss.current_thread
  /\ parent_message_id = ss.parent_message_id
  /\ submitted_prompt = ss.submitted_prompt

PointersAre(ss) ==
  /\ current_thread = ss.current_thread
  /\ parent_message_id = ss.parent_message_id

\* C1: after the messages of the active thread were fetched and the list is
\* not empty, parent_message_id is the id of the thread's most recent message.
C1_PointerIsLastMessage ==
  (lastOp.op = "get_thread_messages" /\ lastOp.ok
     /\ srvMsgs[lastOp.id] # <<>>)
    => parent_message_id = Last(srvMsgs[lastOp.id])

\* C2: a delete_thread(id) that succeeds on the active thread leaves
\* current_thread None and parent_message_id 0.
C2_DeleteActiveResets ==
  (lastOp.op = "delete_thread" /\ lastOp.ok /\ lastOp.id = before.current_thread)
    => (current_thread = None /\ parent_message_id = 0)

\* C2 happens: the active thread is deleted while the pointer is not 0 and a
\* prompt is pending.
C2_Witness ==
  /\ lastOp.op = "delete_thread" /\ lastOp.ok
  /\ lastOp.id = before.current_thread
  /\ before.parent_message_id # 0
  /\ before.submitted_prompt # None
  /\ current_thread = None

\* C3: a create, rename or delete call for a thread other than the active
\* one leaves current_thread and parent_message_id as they were.
C3_OtherThreadKeepsPointers ==
  (\/ lastOp.op = "create_thread"
   \/ /\ lastOp.op \in {"rename_thread", "delete_thread"}
      /\ lastOp.id # before.current_thread)
    => PointersAre(before)

\* C3 happens: another thread is deleted while a thread is active and its
\* pointer is not 0.
C3_Witness ==
  /\ lastOp.op = "delete_thread" /\ lastOp.ok
  /\ before.current_thread # None
  /\ lastOp.id # before.current_thread
  /\ before.parent_message_id # 0
  /\ current_thread = before.current_thread

\* C4: a thread operation whose request fails leaves the session state as it
\* was before the call.
C4_FailedOpKeepsState ==
  (lastOp.op \in {"list_threads", "get_thread_messages", "create_thread",
                  "rename_thread", "delete_thread"} /\ ~lastOp.ok)
    => SessionIs(before)

Kinds(r) == [i \in 1..Len(r) |-> r[i].kind]
IsPrefix(a, b) == Len(a) <= Len(b) /\ a = SubSeq(b, 1, Len(a))

\* C5: in a turn started without an active thread the requests are create,
\* then rename of the created thread, then the run on that thread, each one
\* issued after the one before it has been answered; in a turn started with
\* an active thread the only request is the run.
C5_RequestsSequenced ==
  reqs # <<>> =>
    IF pre.current_thread = None
      THEN /\ IsPrefix(Kinds(reqs), <<"create", "rename", "run">>)
           /\ Len(reqs) >= 2 =>
                (reqs[1].ok /\ reqs[2].thread_id = reqs[1].thread_id)
           /\ Len(reqs) >= 3 => reqs[3].thread_id = reqs[1].thread_id
      ELSE /\ Kinds(reqs) = <<"run">>
           /\ reqs[1].thread_id = pre.current_thread

\* C5 happens: a turn without an active thread has sent its three requests.
C5_Witness ==
  /\ pc = "stream"
  /\ pre.current_thread = None
  /\ Kinds(reqs) = <<"create", "rename", "run">>

\* C6: after a failed create or a failed rename the turn sends no agent run
\* request.
C6_FailureIsTerminal ==
  \A i, j \in 1..Len(reqs) :
    (i < j /\ ~reqs[i].ok /\ reqs[i].kind \in {"create", "rename"})
      => reqs[j].kind # "run"

\* C7: a submitted prompt causes at most one agent run request.
C7_AtMostOneRun == sent <= 1

\* C8: when the agent call of a turn fails, current_thread and
\* parent_message_id are what they were when the turn started.
C8_FailedTurnKeepsState ==
  (lastOp.op = "call_cortex_agent" /\ ~lastOp.ok) => PointersAre(pre)

\* The text a source event adds to the answer and to the reasoning.
AnswerPart(e) ==
  CASE e.event = "response.text.delta" -> e.text
    [] e.event = "response.text.annotation" -> Marker(e.annotation_index, e.doc_id)
    [] OTHER -> <<>>
ReasoningPart(e) ==
  IF e.event = "response.thinking.delta" THEN e.text ELSE <<>>

RECURSIVE Concat(_, _)
Concat(Part(_), evs) ==
  IF evs = <<>> THEN <<>>
  ELSE Concat(Part, DropLast(evs)) \o Part(Last(evs))

\* C9: while the stream is read and when it is exhausted, the answer buffer is
\* the texts of the text deltas and the markers of the annotations in arrival
\* order, and the reasoning buffer is the texts of the thinking deltas.
C9_BuffersAreConcatenation ==
  pc \in {"stream", "exhausted"} =>
    /\ text_txt = Concat(AnswerPart, events)
    /\ planning_txt = Concat(ReasoningPart, events)

\* C9 happens: an exhausted stream with a thinking delta, a text delta and an
\* annotation after the text.
C9_Witness ==
  /\ pc = "exhausted"
  /\ \E i, j, k \in 1..Len(events) :
       /\ i < j
       /\ events[i].event = "response.text.delta"
       /\ events[j].event = "response.text.annotation"
       /\ events[k].event = "response.thinking.delta"
  /\ Len(text_txt) > Len(Marker(1, "doc1"))
  /\ planning_txt # <<>>

RECURSIVE SelectRecognized(_)
SelectRecognized(evs) ==
  IF evs = <<>> THEN <<>>
  ELSE IF Last(evs).event \in Recognized
    THEN Append(SelectRecognized(DropLast(evs)), Last(evs))
    ELSE SelectRecognized(DropLast(evs))

\* The item a recognized event decodes to.
ItemOf(e) ==
  [is_text |-> e.event # "response.thinking.delta",
   text |-> IF e.event = "response.text.annotation"
              THEN Marker(e.annotation_index, e.doc_id) ELSE e.text]

\* C10: the decoder yields one item per event with a recognized name, in the
\* order of the events, and nothing for an event with another name.
C10_OneItemPerRecognizedEvent ==
  pc \in {"stream", "exhausted"} =>
    /\ Len(yielded) = Len(SelectRecognized(events))
    /\ \A i \in 1..Len(yielded) : yielded[i] = ItemOf(SelectRecognized(events)[i])

\* C10 happens: an exhausted stream where an event with an unknown name comes
\* between two recognized events.
C10_Witness ==
  /\ pc = "exhausted"
  /\ Len(events) = 3
  /\ events[1].event = "response.text.annotation"
  /\ events[2].event \notin Recognized
  /\ events[3].event \in Recognized
  /\ Len(yielded) = 2

\* C11: an event with a recognized name and data that is not JSON fails that
\* item only: the run goes on reading the stream after it.
C11_DecodeErrorIsLocal ==
  (\E i \in 1..Len(events) : Raises(events[i]))
    => pc \in {"stream", "exhausted"}

\* C12: the turn of every finite stream completes: a run whose agent request
\* was answered does not end with the prompt still pending.
C12_TurnCompletes ==
  (pc = "aborted" /\ reqs # <<>> /\ Last(reqs).kind = "run" /\ Last(reqs).ok)
    => submitted_prompt = None

\* The markers in a string: the places of their first blank.
MarkerStarts(out) ==
  {i \in 1..Len(out) : i + 8 <= Len(out) /\ out[i + 1] = ReplayOpen}
InMarker(out, j) == \E i \in MarkerStarts(out) : i <= j /\ j <= i + 8
\* The characters of the string that are in no marker, in their order.
RECURSIVE Stripped(_, _)
Stripped(out, n) ==
  IF n = 0 THEN <<>>
  ELSE IF InMarker(out, n) THEN Stripped(out, n - 1)
  ELSE Append(Stripped(out, n - 1), out[n])
\* The marker at i is the one of the k-th annotation.
IsMarkerOf(out, i, anns, k) ==
  /\ i \in MarkerStarts(out)
  /\ SubSeq(out, i, i + 8) = ReplayMarker(k, anns[k].doc_id)
\* The number of characters of the text before place i of the string.
TextBefore(out, i) == Len(Stripped(out, i - 1))

Replayed == fpc = "replayed"
InText == \A k \in 1..Len(annotations) : annotations[k].index <= Len(raw_response)

\* C13: every annotation with a position in the text has its marker at that
\* offset of the text: the characters of the text before the marker are the
\* first `position` ones.
C13_MarkerAtRecordedOffset ==
  (Replayed /\ InText) =>
    \A k \in 1..Len(annotations) :
      \E i \in 1..Len(markdown) :
        /\ IsMarkerOf(markdown, i, annotations, k)
        /\ TextBefore(markdown, i) = annotations[k].index

OrdersOf(n) ==
  {f \in [1..n -> 1..n] : \A i, j \in 1..n : f[i] = f[j] => i = j}

\* C14: the replayed string is the same for every order in which the item
\* lists its annotations.
C14_OrderInvariant ==
  Replayed =>
    \A f \in OrdersOf(Len(annotations)) :
      Rendered(raw_response, [i \in 1..Len(annotations) |-> annotations[f[i]]])
        = markdown

RECURSIVE SumMarkerLen(_, _)
SumMarkerLen(anns, n) ==
  IF n = 0 THEN 0
  ELSE SumMarkerLen(anns, n - 1) + Len(ReplayMarker(n, anns[n].doc_id))

\* C15: for annotations with positions in the text, the replayed string is as
\* long as the text and the markers together, it is the text when the markers
\* are taken out, and its markers are one per annotation, with the number and
\* the url of that annotation.
C15_RoundTrip ==
  (Replayed /\ InText) =>
    /\ Len(markdown) = Len(raw_response) + SumMarkerLen(annotations, Len(annotations))
    /\ Stripped(markdown, Len(markdown)) = raw_response
    /\ Cardinality(MarkerStarts(markdown)) = Len(annotations)
    /\ \A k \in 1..Len(annotations) :
         \E i \in 1..Len(markdown) : IsMarkerOf(markdown, i, annotations, k)

\* C15 happens: two annotations inside a text of three characters, the later
\* one at the smaller position.
C15_Witness ==
  /\ Replayed
  /\ Len(raw_response) = 3
  /\ Len(annotations) = 2
  /\ annotations[1].index = 2
  /\ annotations[2].index = 1
  /\ Cardinality(MarkerStarts(markdown)) = 2

\* C16: the marker of an annotation with a position after the end of the text
\* is in the replayed string, after every character of the text.  Three
\* annotations are needed for the marker to land inside the text: two that
\* make the list longer than the position, then the one after the end.
C16_ClampedToEnd ==
  Replayed =>
    \A k \in 1..Len(annotations) :
      annotations[k].index > Len(raw_response) =>
        \E i \in 1..Len(markdown) :
          /\ IsMarkerOf(markdown, i, annotations, k)
          /\ TextBefore(markdown, i) = Len(raw_response)

\* C17: the name in the rename request of a thread the turn created is a
\* shortened form of the prompt, of NameLimit characters at most.
C17_RenameNameIsShortened ==
  \A i \in 1..Len(reqs) :
    reqs[i].kind = "rename" => reqs[i].name <= NameLimit

\* The place of a thread in the server's list.
ListIndex(id) == CHOOSE i \in 1..Len(all_threads) : all_threads[i].thread_id = id
\* The group the claim gives a thread updated at instant t.
BucketOf(t) ==
  IF t \div UnitsPerDay = now \div UnitsPerDay THEN "today"
  ELSE IF t \div UnitsPerDay = (now \div UnitsPerDay) - 1 THEN "yesterday"
  ELSE "older"
GroupRank(g) == CHOOSE r \in 1..3 : <<"today", "yesterday", "older">>[r] = g

\* C18: every listed thread is in the sidebar once, in the group of its
\* updated_on (today, yesterday, older for every other date); the groups
\* come in the order today, yesterday, older, and the threads of a group in
\* the order of the server's list.
C18_BucketsAndOrder ==
  fpc = "shown" =>
    /\ \A i \in 1..Len(all_threads) :
         /\ Cardinality({p \in 1..Len(sidebar) :
              sidebar[p].thread_id = all_threads[i].thread_id}) = 1
         /\ \E p \in 1..Len(sidebar) :
              /\ sidebar[p].thread_id = all_threads[i].thread_id
              /\ sidebar[p].group = BucketOf(all_threads[i].updated_on)
    /\ Len(sidebar) = Len(all_threads)
    /\ \A p, q \in 1..Len(sidebar) :
         p < q =>
           /\ GroupRank(sidebar[p].group) <= GroupRank(sidebar[q].group)
           /\ sidebar[p].group = sidebar[q].group
                => ListIndex(sidebar[p].thread_id) < ListIndex(sidebar[q].thread_id)

\* C18 happens: the list has a thread updated ten days ago first, then one
\* of yesterday, then one of today, and the sidebar shows them in the
\* opposite order.
C18_Witness ==
  /\ fpc = "shown"
  /\ Len(all_threads) = 3
  /\ all_threads[1].updated_on = now - 20
  /\ BucketOf(all_threads[2].updated_on) = "yesterday"
  /\ BucketOf(all_threads[3].updated_on) = "today"
  /\ sidebar[1].thread_id = all_threads[3].thread_id
  /\ sidebar[3].thread_id = all_threads[1].thread_id
  /\ sidebar[3].group = "older"

\* C19: when pat or account_url has no value, the run halts in AppConfig and
\* nothing else ever happens in the session: no request to the threads or the
\* agent endpoints.
C19_MissingCredentialIsFatal ==
  (Keys \ secrets # {}) =>
    /\ pc \in {"config", "halted"}
    /\ lastOp.op \in {"start", "AppConfig"}
    /\ reqs = <<>>
    /\ sent = 0
    /\ srvThreads = {}

\* C19 happens: account_url has no value in the secrets file and the run
\* has halted in AppConfig.
C19_Witness ==
  /\ secrets_file
  /\ secrets = {"pat"}
  /\ pc = "halted"
  /\ lastOp = Op("AppConfig", FALSE, None)

\* The message ids of a thread at the server.
MessagesOf(t) ==
  IF t \in ThreadIds THEN {srvMsgs[t][i] : i \in 1..Len(srvMsgs[t])} ELSE {}

\* C20: the parent_message_id of an agent run request is 0 or the id of a
\* message of the thread the request names, and the run request that follows
\* the creation of a thread in the same run carries 0.
C20_ParentBelongsToThread ==
  lastOp.op = "call_cortex_agent" =>
    /\ \/ Last(reqs).parent_message_id = 0
       \/ Last(reqs).parent_message_id \in MessagesOf(Last(reqs).thread_id)
    /\ (\E i \in 1..Len(reqs) : reqs[i].kind = "create")
         => Last(reqs).parent_message_id = 0

\* C21: after the messages of the active thread were fetched and the list is
\* not empty, the pointer is derived without an error: the run goes on to the
\* chat input with the id of a message of the thread in parent_message_id.
C21_PointerDerivationCompletes ==
  (lastOp.op = "get_thread_messages" /\ lastOp.ok
     /\ srvMsgs[lastOp.id] # <<>>)
    => /\ pc = "input"
       /\ parent_message_id \in MessagesOf(lastOp.id)

====
